---- MODULE Spec2Model ----
(***************************************************************************)
(* A model of the aporia pseudorandom number toolkit: the RandomBackend    *)
(* trait with its default methods, the six generator backends, the custom  *)
(* backend of the crate documentation, and the Rng wrapper.                *)
(*                                                                         *)
(* A u64 is a tuple of eight bytes, w[1] the least significant, so that    *)
(* all arithmetic is exact arithmetic modulo 2^64.                         *)
(***************************************************************************)
EXTENDS Integers, Sequences, FiniteSets, TLC

VARIABLES
    rng,      \* Rng.backend: the backend owned by the handle
    ctor,     \* the constructor call that made it, and its outcome
    twin,     \* an identical instance, advanced only by direct next_u64 calls
    drawn,    \* the words rng's backend has returned, in order
    twinOut,  \* the words twin has returned, in order
    pc,       \* where the caller of the handle stands
    call,     \* the current or last call on the handle
    endian    \* the target's native byte order

vars == <<rng, ctor, twin, drawn, twinOut, pc, call, endian>>

----------------------------------------------------------------------------
(* Bounds of the model *)

MaxDraws == 4
MaxTwinDraws == 4
MaxBufLen == 17
MaxLongDraws == 314

----------------------------------------------------------------------------
(* 64-bit words *)

ZERO == <<0, 0, 0, 0, 0, 0, 0, 0>>
ONE == <<1, 0, 0, 0, 0, 0, 0, 0>>
U64_MAX == <<255, 255, 255, 255, 255, 255, 255, 255>>

\* 2^k, for k in 0..8
Pow2(k) == <<1, 2, 4, 8, 16, 32, 64, 128, 256>>[k + 1]

\* The word of a small natural number (below 2^31).
U64(n) == <<n % 256, (n \div 256) % 256, (n \div 65536) % 256,
            (n \div 16777216) % 256, 0, 0, 0, 0>>

\* Byte i of w, zero outside 1..8.
ByteAt(w, i) == IF i >= 1 /\ i <= 8 THEN w[i] ELSE 0

RECURSIVE BitAnd(_, _)
BitAnd(a, b) == IF a = 0 \/ b = 0 THEN 0
                ELSE ((a % 2) * (b % 2)) + (2 * BitAnd(a \div 2, b \div 2))
BitXor(a, b) == (a + b) - (2 * BitAnd(a, b))
BitOr(a, b) == (a + b) - BitAnd(a, b)

And64(a, b) == <<BitAnd(a[1], b[1]), BitAnd(a[2], b[2]), BitAnd(a[3], b[3]),
                 BitAnd(a[4], b[4]), BitAnd(a[5], b[5]), BitAnd(a[6], b[6]),
                 BitAnd(a[7], b[7]), BitAnd(a[8], b[8])>>
Xor64(a, b) == <<BitXor(a[1], b[1]), BitXor(a[2], b[2]), BitXor(a[3], b[3]),
                 BitXor(a[4], b[4]), BitXor(a[5], b[5]), BitXor(a[6], b[6]),
                 BitXor(a[7], b[7]), BitXor(a[8], b[8])>>
Or64(a, b) == <<BitOr(a[1], b[1]), BitOr(a[2], b[2]), BitOr(a[3], b[3]),
                BitOr(a[4], b[4]), BitOr(a[5], b[5]), BitOr(a[6], b[6]),
                BitOr(a[7], b[7]), BitOr(a[8], b[8])>>

\* Byte i of w << k and of w >> k, for 0 <= k < 64.
ShlByte(w, k, i) ==
    LET q == k \div 8
        r == k % 8
    IN  ((ByteAt(w, i - q) * Pow2(r)) % 256) + (ByteAt(w, i - q - 1) \div Pow2(8 - r))
ShrByte(w, k, i) ==
    LET q == k \div 8
        r == k % 8
    IN  (ByteAt(w, i + q) \div Pow2(r)) + ((ByteAt(w, i + q + 1) % Pow2(r)) * Pow2(8 - r))

Shl(w, k) == <<ShlByte(w, k, 1), ShlByte(w, k, 2), ShlByte(w, k, 3), ShlByte(w, k, 4),
               ShlByte(w, k, 5), ShlByte(w, k, 6), ShlByte(w, k, 7), ShlByte(w, k, 8)>>
Shr(w, k) == <<ShrByte(w, k, 1), ShrByte(w, k, 2), ShrByte(w, k, 3), ShrByte(w, k, 4),
               ShrByte(w, k, 5), ShrByte(w, k, 6), ShrByte(w, k, 7), ShrByte(w, k, 8)>>

\* a + b as nine bytes, the ninth the carry out.
RECURSIVE AddFrom(_, _, _, _)
AddFrom(a, b, i, carry) ==
    IF i > 8 THEN <<carry>>
    ELSE LET t == a[i] + b[i] + carry
         IN  <<t % 256>> \o AddFrom(a, b, i + 1, t \div 256)
WrappingAdd(a, b) == SubSeq(AddFrom(a, b, 1, 0), 1, 8)
AddOverflows(a, b) == AddFrom(a, b, 1, 0)[9] = 1

\* a - b modulo 2^64.
RECURSIVE SubFrom(_, _, _, _)
SubFrom(a, b, i, borrow) ==
    IF i > 8 THEN <<>>
    ELSE LET t == (a[i] - b[i]) - borrow
         IN  <<t % 256>> \o SubFrom(a, b, i + 1, IF t < 0 THEN 1 ELSE 0)
WrappingSub(a, b) == SubFrom(a, b, 1, 0)

\* a * b modulo 2^64, by columns of byte products.
RECURSIVE ColSum(_, _, _, _)
ColSum(a, b, k, i) == IF i > k THEN 0 ELSE (a[i] * b[(k + 1) - i]) + ColSum(a, b, k, i + 1)
RECURSIVE MulFrom(_, _, _, _)
MulFrom(a, b, k, carry) ==
    IF k > 8 THEN <<>>
    ELSE LET t == ColSum(a, b, k, 1) + carry
         IN  <<t % 256>> \o MulFrom(a, b, k + 1, t \div 256)
WrappingMul(a, b) == MulFrom(a, b, 1, 0)

\* a < b, compared from the most significant byte down.
RECURSIVE LtFrom(_, _, _)
LtFrom(a, b, i) == IF i = 0 THEN FALSE
                   ELSE IF a[i] # b[i] THEN a[i] < b[i]
                   ELSE LtFrom(a, b, i - 1)
Lt(a, b) == LtFrom(a, b, 8)
Ge(a, b) == ~Lt(a, b)

\* Bit k (0 the lowest) of w.
Bit(w, k) == (w[(k \div 8) + 1] \div Pow2(k % 8)) % 2

\* Long division works on a word as three limbs, of 24, 24 and 16 bits, the
\* lowest first; the top limb has room for the bit a doubling carries out.
Limbs(w) == <<w[1] + (256 * w[2]) + (65536 * w[3]),
              w[4] + (256 * w[5]) + (65536 * w[6]),
              w[7] + (256 * w[8])>>
Unlimbs(l) == <<l[1] % 256, (l[1] \div 256) % 256, l[1] \div 65536,
                l[2] % 256, (l[2] \div 256) % 256, l[2] \div 65536,
                l[3] % 256, l[3] \div 256>>

\* One step of the binary long division by m # 0: the partial remainder r (below
\* m) becomes 2r + bit, less m when that reaches m.
RemStep(m, bit, r) ==
    LET d1 == (2 * r[1]) + bit
        d2 == (2 * r[2]) + (d1 \div 16777216)
        d3 == (2 * r[3]) + (d2 \div 16777216)
        e1 == d1 % 16777216
        e2 == d2 % 16777216
        ge == \/ d3 > m[3]
              \/ d3 = m[3] /\ e2 > m[2]
              \/ d3 = m[3] /\ e2 = m[2] /\ e1 >= m[1]
        s1 == e1 - m[1]
        s2 == (e2 - m[2]) - (IF s1 < 0 THEN 1 ELSE 0)
        s3 == (d3 - m[3]) - (IF s2 < 0 THEN 1 ELSE 0)
    IN  IF ge THEN <<s1 % 16777216, s2 % 16777216, s3>> ELSE <<e1, e2, d3>>

\* The steps for bits hi down to lo of a, in that order. The range is split in
\* halves, and the upper half is evaluated (its length looked at) before the lower
\* starts, to keep TLC's nesting shallow.
RECURSIVE RemBits(_, _, _, _, _)
RemBits(a, m, hi, lo, r) ==
    IF hi = lo THEN RemStep(m, Bit(a, hi), r)
    ELSE LET mid == (hi + lo + 1) \div 2
             done == RemBits(a, m, hi, mid, r)
         IN  IF Len(done) = 3 THEN RemBits(a, m, mid - 1, lo, done) ELSE done

\* a % m, for m # 0
Rem(a, m) == Unlimbs(RemBits(a, Limbs(m), 63, 0, <<0, 0, 0>>))

----------------------------------------------------------------------------
(* The backends. A backend value is a record: kind names the type, state and   *)
(* increment are the one- and two-word generators' fields, s is Xoshiro's     *)
(* array, mt and index are the Mersenne Twister's. Fields a type does not     *)
(* have are left ZERO or empty. Arrays are indexed from 0, as in the source.  *)

At(arr, i) == arr[i + 1]
Put(arr, i, v) == [arr EXCEPT ![i + 1] = v]

Backend(kind, state, increment, s, mt, index) ==
    [kind |-> kind, state |-> state, increment |-> increment,
     s |-> s, mt |-> mt, index |-> index]
Scalar(kind, state) == Backend(kind, state, ZERO, <<>>, <<>>, 0)

\* What next_u64(&mut self) -> u64 yields: the backend after the call and the value.
Drawn(b, v) == [b |-> b, v |-> v]

(* lcg.rs *)
LCG_MULTIPLIER == <<45, 127, 149, 76, 45, 244, 81, 88>>   \* 6364136223846793005
LCG_INCREMENT == <<79, 129, 103, 247, 126, 123, 5, 20>>   \* 1442695040888963407

LCG_new(seed) == Scalar("LCG", seed)
\* LCG::next_u64 had it mixed a process-wide call counter into the word: the
\* output would then depend on more than the instance's own state.
LCG_next_u64_global_counter(b) ==
    LET state == WrappingAdd(WrappingMul(b.state, LCG_MULTIPLIER), LCG_INCREMENT)
    IN  Drawn([b EXCEPT !.state = state],
              Xor64(state, U64(Len(drawn) + Len(twinOut))))
LCG_next_u64(b) ==
    LET state == WrappingAdd(WrappingMul(b.state, LCG_MULTIPLIER), LCG_INCREMENT)
    IN  Drawn([b EXCEPT !.state = state], state)

(* xorshift.rs *)
\* XorShift::try_new had it lost its zero check.
XorShift_try_new_unchecked(seed) ==
    [ok |-> TRUE, val |-> Scalar("XorShift", seed), panicked |-> FALSE]
XorShift_try_new(seed) ==
    IF seed = ZERO THEN [ok |-> FALSE, err |-> "InvalidSeed", panicked |-> FALSE]
    ELSE [ok |-> TRUE, val |-> Scalar("XorShift", seed), panicked |-> FALSE]
XorShift_new(seed) ==
    IF seed = ZERO THEN [ok |-> FALSE, panicked |-> TRUE]
    ELSE [ok |-> TRUE, val |-> Scalar("XorShift", seed), panicked |-> FALSE]
\* XorShift::next_u64 had its first step been `x = x << 13` for `x ^= x << 13`.
XorShift_next_u64_assign(b) ==
    LET x0 == b.state
        x1 == Shl(x0, 13)
        x2 == Xor64(x1, Shr(x1, 7))
        x3 == Xor64(x2, Shl(x2, 17))
    IN  Drawn([b EXCEPT !.state = x3], x3)
XorShift_next_u64(b) ==
    LET x0 == b.state
        x1 == Xor64(x0, Shl(x0, 13))
        x2 == Xor64(x1, Shr(x1, 7))
        x3 == Xor64(x2, Shl(x2, 17))
    IN  Drawn([b EXCEPT !.state = x3], x3)

(* splitmix64.rs *)
SM_GAMMA == <<21, 124, 74, 127, 185, 121, 55, 158>>   \* 0x9E3779B97F4A7C15
SM_MUL1 == <<185, 229, 228, 28, 109, 71, 88, 191>>    \* 0xBF58476D1CE4E5B9
SM_MUL2 == <<235, 17, 49, 19, 187, 73, 208, 148>>     \* 0x94D049BB133111EB

SplitMix64_new(seed) == Scalar("SplitMix64", seed)
\* SplitMix64::next_u64 had it worked on a copy of the state and not stored it.
SplitMix64_next_u64_no_store(b) ==
    LET state == WrappingAdd(b.state, SM_GAMMA)
        z1 == WrappingMul(Xor64(state, Shr(state, 30)), SM_MUL1)
        z2 == WrappingMul(Xor64(z1, Shr(z1, 27)), SM_MUL2)
    IN  Drawn(b, Xor64(z2, Shr(z2, 31)))
SplitMix64_next_u64(b) ==
    LET state == WrappingAdd(b.state, SM_GAMMA)
        z1 == WrappingMul(Xor64(state, Shr(state, 30)), SM_MUL1)
        z2 == WrappingMul(Xor64(z1, Shr(z1, 27)), SM_MUL2)
    IN  Drawn([b EXCEPT !.state = state], Xor64(z2, Shr(z2, 31)))

(* pcg.rs *)
PCG_MULTIPLIER == <<45, 127, 149, 76, 45, 244, 81, 88>>   \* 6364136223846793005

\* `as u32`: the low 32 bits.
AsU32(w) == <<w[1], w[2], w[3], w[4], 0, 0, 0, 0>>
\* u32::rotate_right, on a word below 2^32 and by n taken modulo 32.
RotateRight32(x, n) ==
    LET k == n % 32
    IN  IF k = 0 THEN x ELSE AsU32(Or64(Shr(x, k), Shl(x, 32 - k)))
\* The value of a word below 2^31 as a number.
Small(w) == w[1] + (256 * w[2]) + (65536 * w[3]) + (16777216 * w[4])

\* PCG::next_u64 had it rotated the 64-bit word, with no `as u32`.
PCG_next_u64_rotate_64(b) ==
    LET old_state == b.state
        state == WrappingAdd(WrappingMul(old_state, PCG_MULTIPLIER), b.increment)
        xorshifted == Shr(Xor64(Shr(old_state, 18), old_state), 27)
        rot == Small(Shr(old_state, 59))
    IN  Drawn([b EXCEPT !.state = state],
              IF rot = 0 THEN xorshifted
              ELSE Or64(Shr(xorshifted, rot), Shl(xorshifted, 64 - rot)))
PCG_next_u64(b) ==
    LET old_state == b.state
        state == WrappingAdd(WrappingMul(old_state, PCG_MULTIPLIER), b.increment)
        xorshifted == AsU32(Shr(Xor64(Shr(old_state, 18), old_state), 27))
        rot == AsU32(Shr(old_state, 59))
    IN  Drawn([b EXCEPT !.state = state], RotateRight32(xorshifted, Small(rot)))
\* PCG::new had it returned without its one internal step.
PCG_new_no_step(seed, sequence) ==
    LET increment == Or64(Shl(sequence, 1), ONE)
    IN  Backend("PCG", WrappingAdd(seed, increment), increment, <<>>, <<>>, 0)
PCG_new(seed, sequence) ==
    LET increment == Or64(Shl(sequence, 1), ONE)
        pcg == Backend("PCG", WrappingAdd(seed, increment), increment, <<>>, <<>>, 0)
    IN  PCG_next_u64(pcg).b

(* xoshiro256starstar.rs *)
rotl(x, k) == Or64(Shl(x, k), Shr(x, 64 - k))

RECURSIVE Xoshiro_fill(_, _, _)
Xoshiro_fill(sm, s, i) ==
    IF i = 4 THEN s
    ELSE LET d == SplitMix64_next_u64(sm)
         IN  Xoshiro_fill(d.b, Put(s, i, d.v), i + 1)
\* Xoshiro256StarStar::new had it put the raw seed in s[0] and left the rest 0:
\* the seed 0 would give the all-zero state.
Xoshiro256StarStar_new_raw_seed(seed) ==
    Backend("Xoshiro256StarStar", ZERO, ZERO, <<seed, ZERO, ZERO, ZERO>>, <<>>, 0)
Xoshiro256StarStar_new(seed) ==
    Backend("Xoshiro256StarStar", ZERO, ZERO,
            Xoshiro_fill(SplitMix64_new(seed), <<ZERO, ZERO, ZERO, ZERO>>, 0), <<>>, 0)
Xoshiro256StarStar_next_u64(b) ==
    LET result == WrappingMul(rotl(WrappingMul(At(b.s, 1), U64(5)), 7), U64(9))
        t == Shl(At(b.s, 1), 17)
        s2a == Xor64(At(b.s, 2), At(b.s, 0))
        s3a == Xor64(At(b.s, 3), At(b.s, 1))
        s1a == Xor64(At(b.s, 1), s2a)
        s0a == Xor64(At(b.s, 0), s3a)
        s2b == Xor64(s2a, t)
        s3b == rotl(s3a, 45)
    IN  Drawn([b EXCEPT !.s = <<s0a, s1a, s2b, s3b>>], result)

(* mt19937_64.rs *)
NN == 312
MM == 156
MT_INIT_MULTIPLIER == <<45, 127, 149, 76, 45, 244, 81, 88>>   \* 6364136223846793005
LOWER_MASK == <<255, 255, 255, 127, 0, 0, 0, 0>>              \* (1 << 31) - 1
UPPER_MASK == <<0, 0, 0, 128, 255, 255, 255, 255>>            \* !LOWER_MASK
MATRIX_A == <<233, 25, 102, 169, 90, 111, 2, 181>>            \* 0xB5026F5AA96619E9
TEMPER_B == <<85, 85, 85, 85, 85, 85, 85, 85>>                \* 0x5555555555555555
TEMPER_C == <<0, 0, 166, 237, 255, 127, 214, 113>>            \* 0x71D67FFFEDA60000
TEMPER_D == <<0, 0, 0, 0, 224, 238, 247, 255>>                \* 0xFFF7EEE000000000

\* for i in lo..hi { body }: the iterations in order, each on the array the one
\* before left. The range is split in halves, and the first half is evaluated (its
\* length looked at) before the second starts, to keep TLC's nesting shallow.
MT_init_step(mt, i) ==
    Put(mt, i, WrappingAdd(WrappingMul(MT_INIT_MULTIPLIER,
                                       Xor64(At(mt, i - 1), Shr(At(mt, i - 1), 62))),
                           U64(i)))
RECURSIVE MT_init_loop(_, _, _)
MT_init_loop(mt, lo, hi) ==
    IF hi <= lo THEN mt
    ELSE IF hi = lo + 1 THEN MT_init_step(mt, lo)
    ELSE LET mid == (lo + hi) \div 2
             done == MT_init_loop(mt, lo, mid)
         IN  IF Len(done) = NN THEN MT_init_loop(done, mid, hi) ELSE done
\* [v; n]: an array of n copies of v.
RECURSIVE Repeat(_, _)
Repeat(v, n) ==
    IF n = 0 THEN <<>>
    ELSE IF n = 1 THEN <<v>>
    ELSE Repeat(v, n \div 2) \o Repeat(v, n - (n \div 2))
\* MT19937_64::new had it left the cursor at 0: the first 312 words would be
\* tempered from the untwisted array.
MT19937_64_new_cursor_zero(seed) ==
    LET mt0 == Put(Repeat(ZERO, NN), 0, seed)
    IN  Backend("MT19937_64", ZERO, ZERO, <<>>, MT_init_loop(mt0, 1, NN), 0)
MT19937_64_new(seed) ==
    LET mt0 == Put(Repeat(ZERO, NN), 0, seed)
    IN  Backend("MT19937_64", ZERO, ZERO, <<>>, MT_init_loop(mt0, 1, NN), NN)

\* The word the twist writes to mt[i], from the three words it combines.
TwistWord(cur, succ, partner) ==
    LET x == Or64(And64(cur, UPPER_MASK), And64(succ, LOWER_MASK))
        x_a == Shr(x, 1)
    IN  Xor64(partner, IF Bit(x, 0) # 0 THEN Xor64(x_a, MATRIX_A) ELSE x_a)
\* One iteration of the twist loop: reads and writes self.mt in place.
twist_step(mt, i) ==
    Put(mt, i, TwistWord(At(mt, i), At(mt, (i + 1) % NN), At(mt, (i + MM) % NN)))
RECURSIVE twist_loop(_, _, _)
twist_loop(mt, lo, hi) ==
    IF hi <= lo THEN mt
    ELSE IF hi = lo + 1 THEN twist_step(mt, lo)
    ELSE LET mid == (lo + hi) \div 2
             done == twist_loop(mt, lo, mid)
         IN  IF Len(done) = NN THEN twist_loop(done, mid, hi) ELSE done
\* twist had it read a copy of the array taken before the pass: every word from
\* the values of before the pass.
RECURSIVE twist_copy_loop(_, _, _)
twist_copy_loop(old, lo, hi) ==
    IF hi <= lo THEN <<>>
    ELSE IF hi = lo + 1
    THEN <<TwistWord(At(old, lo), At(old, (lo + 1) % NN), At(old, (lo + MM) % NN))>>
    ELSE LET mid == (lo + hi) \div 2
         IN  twist_copy_loop(old, lo, mid) \o twist_copy_loop(old, mid, hi)
twist_from_copy(b) == [b EXCEPT !.mt = twist_copy_loop(b.mt, 0, NN), !.index = 0]
\* MT19937_64::twist
twist(b) == [b EXCEPT !.mt = twist_loop(b.mt, 0, NN), !.index = 0]

Temper(y0) ==
    LET y1 == Xor64(y0, And64(Shr(y0, 29), TEMPER_B))
        y2 == Xor64(y1, And64(Shl(y1, 17), TEMPER_C))
        y3 == Xor64(y2, And64(Shl(y2, 37), TEMPER_D))
    IN  Xor64(y3, Shr(y3, 43))
MT19937_64_next_u64(b) ==
    LET t == IF b.index >= NN THEN twist(b) ELSE b
    IN  Drawn([t EXCEPT !.index = t.index + 1], Temper(At(t.mt, t.index)))

(* lib.rs, the custom backend of the crate documentation: it returns its state *)
(* and never changes it.                                                       *)
MyBackend_new(state) == Scalar("MyBackend", state)
MyBackend_next_u64(b) == Drawn(b, b.state)

\* RandomBackend::next_u64, dispatched on the backend's type.
next_u64(b) ==
    CASE b.kind = "LCG" -> LCG_next_u64(b)
      [] b.kind = "XorShift" -> XorShift_next_u64(b)
      [] b.kind = "SplitMix64" -> SplitMix64_next_u64(b)
      [] b.kind = "PCG" -> PCG_next_u64(b)
      [] b.kind = "Xoshiro256StarStar" -> Xoshiro256StarStar_next_u64(b)
      [] b.kind = "MT19937_64" -> MT19937_64_next_u64(b)
      [] b.kind = "MyBackend" -> MyBackend_next_u64(b)

----------------------------------------------------------------------------
(* Floating point. A float is [m, e]: the number m * 2^e, m a word. *)

F64_DIGITS == 53
F32_DIGITS == 24

\* The number of significant bits of a byte and of a word.
RECURSIVE ByteLen(_)
ByteLen(x) == IF x = 0 THEN 0 ELSE 1 + ByteLen(x \div 2)
RECURSIVE BitLenFrom(_, _)
BitLenFrom(w, i) == IF i = 0 THEN 0
                    ELSE IF w[i] # 0 THEN (8 * (i - 1)) + ByteLen(w[i])
                    ELSE BitLenFrom(w, i - 1)
BitLen(w) == BitLenFrom(w, 8)

\* `val as f64` (digits = 53) and `val as f32` (digits = 24): val rounded to the
\* nearest number with that many significant bits, ties to the even one.
AsFloat(val, digits) ==
    LET n == BitLen(val)
        sh == n - digits
        m0 == Shr(val, sh)
        low == WrappingSub(val, Shl(m0, sh))
        half == Shl(ONE, sh - 1)
        up == Lt(half, low) \/ (low = half /\ Bit(m0, 0) = 1)
    IN  IF n <= digits THEN [m |-> val, e |-> 0]
        ELSE [m |-> IF up THEN WrappingAdd(m0, ONE) ELSE m0, e |-> sh]
\* f * 2^-k: exact, the exponent stays far inside the format's range.
ScaleDown(f, k) == [f EXCEPT !.e = f.e - k]

\* f < 1.0 and f = 1.0
FloatBelowOne(f) == f.m = ZERO \/ BitLen(f.m) + f.e <= 0
FloatIsOne(f) == f.m # ZERO /\ f.m = Shl(ONE, BitLen(f.m) - 1) /\ BitLen(f.m) - 1 + f.e = 0

----------------------------------------------------------------------------
(* backend/mod.rs: the default methods of RandomBackend *)

\* next_f64 had it kept the top 54 bits: `(next_u64() >> 10) as f64` rounds, and
\* the product with 2^-54 can reach 1.0.
next_f64_54_bits(b) ==
    LET d == next_u64(b)
        val == Shr(d.v, 10)
    IN  [b |-> d.b, w |-> d.v, f |-> ScaleDown(AsFloat(val, F64_DIGITS), 54)]
\* RandomBackend::next_f64
next_f64(b) ==
    LET d == next_u64(b)
        val == Shr(d.v, 11)
    IN  [b |-> d.b, w |-> d.v, f |-> ScaleDown(AsFloat(val, F64_DIGITS), 53)]

next_u32(b) ==
    LET d == next_u64(b)
    IN  [b |-> d.b, w |-> d.v, v |-> AsU32(Shr(d.v, 32))]

\* u64::to_ne_bytes: the eight bytes in the target's order.
to_ne_bytes(v, order) ==
    IF order = "little" THEN v
    ELSE <<v[8], v[7], v[6], v[5], v[4], v[3], v[2], v[1]>>

\* buf[from..to].copy_from_slice(src), on a buffer with its count of writes per
\* byte. A range outside the buffer, or of another length than src, panics.
RECURSIVE CopyBytes(_, _, _, _)
CopyBytes(mem, from, src, k) ==
    IF k > Len(src) THEN mem
    ELSE CopyBytes([mem EXCEPT !.bytes[from + k] = src[k],
                               !.writes[from + k] = @ + 1], from, src, k + 1)
copy_from_slice(mem, from, to, src) ==
    IF from > to \/ to > Len(mem.bytes) \/ to - from # Len(src)
    THEN [mem EXCEPT !.panicked = TRUE]
    ELSE CopyBytes(mem, from, src, 1)

\* fill_bytes had its tail test been `i <= len`: a draw more when len is a
\* multiple of 8.
RECURSIVE fill_loop_tail_draw(_, _, _)
fill_loop_tail_draw(st, i, order) ==
    LET len == Len(st.mem.bytes)
        d == next_u64(st.b)
        v == to_ne_bytes(d.v, order)
    IN  IF st.mem.panicked THEN st
        ELSE IF i + 8 <= len
        THEN fill_loop_tail_draw([b |-> d.b, words |-> Append(st.words, d.v),
                                  mem |-> copy_from_slice(st.mem, i, i + 8, v)],
                                 i + 8, order)
        ELSE [b |-> d.b, words |-> Append(st.words, d.v),
              mem |-> copy_from_slice(st.mem, i, len, SubSeq(v, 1, len - i))]
\* fill_bytes from the point where i bytes are filled: st holds the backend, the
\* buffer and the words drawn so far.
RECURSIVE fill_loop(_, _, _)
fill_loop(st, i, order) ==
    LET len == Len(st.mem.bytes)
        d == next_u64(st.b)
        v == to_ne_bytes(d.v, order)
    IN  IF st.mem.panicked THEN st
        ELSE IF i + 8 <= len
        THEN fill_loop([b |-> d.b, words |-> Append(st.words, d.v),
                        mem |-> copy_from_slice(st.mem, i, i + 8, v)], i + 8, order)
        ELSE IF i < len
        THEN [b |-> d.b, words |-> Append(st.words, d.v),
              mem |-> copy_from_slice(st.mem, i, len, SubSeq(v, 1, len - i))]
        ELSE st
fill_bytes(b, bytes, order) ==
    fill_loop([b |-> b, words |-> <<>>,
               mem |-> [bytes |-> bytes, writes |-> [j \in 1..Len(bytes) |-> 0],
                        panicked |-> FALSE]], 0, order)

----------------------------------------------------------------------------
(* The inputs of the model *)

TOP_BIT == <<0, 0, 0, 0, 0, 0, 0, 128>>            \* 2^63
ALL_53 == <<255, 255, 255, 255, 255, 255, 31, 0>>  \* 2^53 - 1

Seeds == {ZERO, ONE, U64(12345), TOP_BIT, U64_MAX}
MTSeeds == {U64(5489), ZERO}
PCGSeeds == {<<U64(42), U64(54)>>, <<ZERO, ZERO>>, <<U64_MAX, U64_MAX>>}
XoshiroSeeds == {ZERO, U64(13579), U64_MAX}
MyStates == {ZERO, ONE, ALL_53, WrappingSub(ZERO, U64(2048)), U64_MAX}
ByteOrders == {"little", "big"}

\* Arguments <<min, max>> for gen_range, valid and not.
RangeArgs ==
    {<<U64(10), U64(20)>>, <<U64(10), U64(13)>>, <<ZERO, ONE>>,
     <<ZERO, WrappingAdd(TOP_BIT, ONE)>>, <<ZERO, U64_MAX>>,
     <<WrappingSub(U64_MAX, U64(3)), U64_MAX>>, <<U64(20), U64_MAX>>,
     <<U64(20), U64(10)>>, <<U64(10), U64(10)>>, <<U64_MAX, ZERO>>}
\* f64 arguments for gen_range_f64: small integers, and NaN.
F64Num(n) == [nan |-> FALSE, v |-> n]
F64NaN == [nan |-> TRUE, v |-> 0]
F64Args == {F64Num(-1), F64Num(0), F64Num(2), F64NaN}
\* min >= max on f64: false when either is NaN.
F64Ge(a, b) == ~a.nan /\ ~b.nan /\ a.v >= b.v

\* A constructor call and what it returned. A failed construction leaves no backend.
NoBackend == Scalar("none", ZERO)
Built(type, fn, args, b) ==
    [type |-> type, fn |-> fn, args |-> args, result |-> "Ok", b |-> b]
Failed(type, fn, args, how) ==
    [type |-> type, fn |-> fn, args |-> args, result |-> how, b |-> NoBackend]
XorShiftCall(fn, seed) ==
    LET r == IF fn = "try_new" THEN XorShift_try_new(seed) ELSE XorShift_new(seed)
    IN  IF r.ok THEN Built("XorShift", fn, <<seed>>, r.val)
        ELSE Failed("XorShift", fn, <<seed>>, IF r.panicked THEN "panic" ELSE r.err)

ScalarCalls ==
    {Built("LCG", "new", <<seed>>, LCG_new(seed)) : seed \in Seeds}
      \cup {Built("SplitMix64", "new", <<seed>>, SplitMix64_new(seed)) : seed \in Seeds}
      \cup {XorShiftCall(fn, seed) : fn \in {"new", "try_new"}, seed \in Seeds}
      \cup {Built("PCG", "new", a, PCG_new(a[1], a[2])) : a \in PCGSeeds}
      \cup {Built("MyBackend", "literal", <<state>>, MyBackend_new(state)) : state \in MyStates}
XoshiroCalls ==
    {Built("Xoshiro256StarStar", "new", <<seed>>, Xoshiro256StarStar_new(seed)) :
        seed \in XoshiroSeeds}
MTCalls ==
    {Built("MT19937_64", "new", <<seed>>, MT19937_64_new(seed)) : seed \in MTSeeds}
Calls == ScalarCalls \cup XoshiroCalls \cup MTCalls

\* One call of each type, and the custom backend in each of its states.
BYTES_1_TO_8 == <<1, 2, 3, 4, 5, 6, 7, 8>>   \* 0x0807060504030201
SampleCalls ==
    {Built("LCG", "new", <<U64(12345)>>, LCG_new(U64(12345))),
     Built("SplitMix64", "new", <<U64(123)>>, SplitMix64_new(U64(123))),
     XorShiftCall("new", ONE),
     Built("PCG", "new", <<U64(42), U64(54)>>, PCG_new(U64(42), U64(54))),
     Built("Xoshiro256StarStar", "new", <<U64(13579)>>, Xoshiro256StarStar_new(U64(13579))),
     Built("MT19937_64", "new", <<U64(5489)>>, MT19937_64_new(U64(5489))),
     Built("MyBackend", "literal", <<BYTES_1_TO_8>>, MyBackend_new(BYTES_1_TO_8))}
RangeCalls ==
    SampleCalls
      \cup {Built("MyBackend", "literal", <<state>>, MyBackend_new(state)) : state \in MyStates}

----------------------------------------------------------------------------
(* The state machine: a program constructs a backend, wraps it in an Rng (and   *)
(* keeps an identical second instance), and calls the handle's methods.         *)

InitFrom(calls, orders) ==
    /\ ctor \in calls
    /\ rng = ctor.b
    /\ twin = ctor.b
    /\ drawn = <<>>
    /\ twinOut = <<>>
    /\ pc = IF ctor.result = "Ok" THEN "ready" ELSE "failed"
    /\ call = [op |-> "none"]
    /\ endian \in orders

Init == InitFrom(Calls, ByteOrders)

CanDraw(n) == Len(drawn) + n <= MaxDraws

\* Rng::next_u64
NextU64 ==
    /\ pc = "ready" /\ CanDraw(1)
    /\ \E d \in {next_u64(rng)} :
           /\ rng' = d.b
           /\ drawn' = Append(drawn, d.v)
           /\ call' = [op |-> "next_u64", ret |-> d.v]
    /\ UNCHANGED <<ctor, twin, twinOut, pc, endian>>

\* next_u64 called directly on the second instance
TwinNextU64 ==
    /\ ctor.result = "Ok" /\ Len(twinOut) < MaxTwinDraws
    /\ \E d \in {next_u64(twin)} :
           /\ twin' = d.b
           /\ twinOut' = Append(twinOut, d.v)
    /\ UNCHANGED <<rng, ctor, drawn, pc, call, endian>>

\* Rng::next_f64
NextF64 ==
    /\ pc = "ready" /\ CanDraw(1)
    /\ \E d \in {next_f64(rng)} :
           /\ rng' = d.b
           /\ drawn' = Append(drawn, d.w)
           /\ call' = [op |-> "next_f64", ret |-> d.f]
    /\ UNCHANGED <<ctor, twin, twinOut, pc, endian>>

\* Rng::next_u32
NextU32 ==
    /\ pc = "ready" /\ CanDraw(1)
    /\ \E d \in {next_u32(rng)} :
           /\ rng' = d.b
           /\ drawn' = Append(drawn, d.w)
           /\ call' = [op |-> "next_u32", ret |-> d.v]
    /\ UNCHANGED <<ctor, twin, twinOut, pc, endian>>

\* Rng::next_f32
Rng_next_f32(b) ==
    LET d == next_u64(b)
        val == AsU32(Shr(d.v, 40))
    IN  [b |-> d.b, w |-> d.v, f |-> ScaleDown(AsFloat(val, F32_DIGITS), 24)]
NextF32 ==
    /\ pc = "ready" /\ CanDraw(1)
    /\ \E d \in {Rng_next_f32(rng)} :
           /\ rng' = d.b
           /\ drawn' = Append(drawn, d.w)
           /\ call' = [op |-> "next_f32", ret |-> d.f]
    /\ UNCHANGED <<ctor, twin, twinOut, pc, endian>>

\* Rng::next_bool
\* Rng::next_bool had it tested the highest bit of the word.
Rng_next_bool_top_bit(b) ==
    LET d == next_u64(b)
    IN  [b |-> d.b, w |-> d.v, v |-> And64(d.v, TOP_BIT) # ZERO]
Rng_next_bool(b) ==
    LET d == next_u64(b)
    IN  [b |-> d.b, w |-> d.v, v |-> And64(d.v, ONE) # ZERO]
NextBool ==
    /\ pc = "ready" /\ CanDraw(1)
    /\ \E d \in {Rng_next_bool(rng)} :
           /\ rng' = d.b
           /\ drawn' = Append(drawn, d.w)
           /\ call' = [op |-> "next_bool", ret |-> d.v]
    /\ UNCHANGED <<ctor, twin, twinOut, pc, endian>>

\* An iteration of the loop of Rng::gen_range had the test been `v <= zone`.
Rng_gen_range_iter_le(b, min, range, zone) ==
    LET d == next_u64(b)
        offset == Rem(d.v, range)
    IN  IF ~Lt(zone, d.v)
        THEN [b |-> d.b, w |-> d.v, returned |-> TRUE,
              ret |-> WrappingAdd(min, offset), overflow |-> AddOverflows(min, offset)]
        ELSE [b |-> d.b, w |-> d.v, returned |-> FALSE, ret |-> ZERO, overflow |-> FALSE]
\* Rng::gen_range up to its loop had zone been left at u64::MAX, the remainder
\* never taken off.
Rng_gen_range_enter_full_zone(b, min, max) ==
    IF Ge(min, max) THEN [panicked |-> TRUE, b |-> b, words |-> <<>>]
    ELSE [panicked |-> FALSE, b |-> b, words |-> <<>>,
          range |-> WrappingSub(max, min), zone |-> U64_MAX]
\* Rng::gen_range up to its loop: the panic on min >= max, else range and zone.
Rng_gen_range_enter(b, min, max) ==
    IF Ge(min, max) THEN [panicked |-> TRUE, b |-> b, words |-> <<>>]
    ELSE LET range == WrappingSub(max, min)
         IN  [panicked |-> FALSE, b |-> b, words |-> <<>>, range |-> range,
              zone |-> WrappingSub(U64_MAX, Rem(U64_MAX, range))]
\* An iteration of the loop of Rng::gen_range had the offset been taken modulo
\* max (min + range) for modulo range: with min added it can pass max.
Rng_gen_range_iter_mod_max(b, min, range, zone) ==
    LET d == next_u64(b)
        offset == Rem(d.v, WrappingAdd(min, range))
    IN  IF Lt(d.v, zone)
        THEN [b |-> d.b, w |-> d.v, returned |-> TRUE,
              ret |-> WrappingAdd(min, offset), overflow |-> AddOverflows(min, offset)]
        ELSE [b |-> d.b, w |-> d.v, returned |-> FALSE, ret |-> ZERO, overflow |-> FALSE]
\* One iteration of its loop: a draw, and the return when the draw is below zone.
Rng_gen_range_iter(b, min, range, zone) ==
    LET d == next_u64(b)
        offset == Rem(d.v, range)
    IN  IF Lt(d.v, zone)
        THEN [b |-> d.b, w |-> d.v, returned |-> TRUE,
              ret |-> WrappingAdd(min, offset), overflow |-> AddOverflows(min, offset)]
        ELSE [b |-> d.b, w |-> d.v, returned |-> FALSE, ret |-> ZERO, overflow |-> FALSE]

GenRangeCall ==
    /\ pc = "ready"
    /\ \E args \in RangeArgs :
       \E r \in {Rng_gen_range_enter(rng, args[1], args[2])} :
             /\ rng' = r.b
             /\ drawn' = drawn \o r.words
             /\ pc' = IF r.panicked THEN "panicked" ELSE "gen_range"
             /\ call' = [op |-> "gen_range", min |-> args[1], max |-> args[2],
                         first |-> Len(drawn) + 1,
                         range |-> IF r.panicked THEN ZERO ELSE r.range,
                         zone |-> IF r.panicked THEN ZERO ELSE r.zone,
                         status |-> IF r.panicked THEN "panicked" ELSE "looping",
                         ret |-> ZERO, overflow |-> FALSE]
    /\ UNCHANGED <<ctor, twin, twinOut, endian>>

GenRangeLoop ==
    /\ pc = "gen_range" /\ CanDraw(1)
    /\ \E r \in {Rng_gen_range_iter(rng, call.min, call.range, call.zone)} :
           /\ rng' = r.b
           /\ drawn' = Append(drawn, r.w)
           /\ pc' = IF r.returned THEN "ready" ELSE "gen_range"
           /\ call' = IF r.returned
                      THEN [call EXCEPT !.status = "returned", !.ret = r.ret,
                                        !.overflow = r.overflow]
                      ELSE call
    /\ UNCHANGED <<ctor, twin, twinOut, endian>>

\* Rng::gen_range_f64 had the draw been made before the bounds are compared.
Rng_gen_range_f64_draw_first(b, min, max) ==
    LET d == next_f64(b)
    IN  IF F64Ge(min, max) THEN [panicked |-> TRUE, b |-> d.b, words |-> <<d.w>>]
        ELSE [panicked |-> FALSE, b |-> d.b, words |-> <<d.w>>, rand |-> d.f]
\* Rng::gen_range_f64. The float expression min + rand * (max - min) is kept as its
\* operands: call.rand with call.min and call.max.
Rng_gen_range_f64(b, min, max) ==
    IF F64Ge(min, max) THEN [panicked |-> TRUE, b |-> b, words |-> <<>>]
    ELSE LET d == next_f64(b)
         IN  [panicked |-> FALSE, b |-> d.b, words |-> <<d.w>>, rand |-> d.f]
GenRangeF64 ==
    /\ pc = "ready"
    /\ \E min \in F64Args, max \in F64Args :
       \E r \in {Rng_gen_range_f64(rng, min, max)} :
             /\ CanDraw(Len(r.words))
             /\ rng' = r.b
             /\ drawn' = drawn \o r.words
             /\ pc' = IF r.panicked THEN "panicked" ELSE "ready"
             /\ call' = [op |-> "gen_range_f64", min |-> min, max |-> max,
                         first |-> Len(drawn) + 1,
                         status |-> IF r.panicked THEN "panicked" ELSE "returned",
                         rand |-> IF r.panicked THEN [m |-> ZERO, e |-> 0] ELSE r.rand]
    /\ UNCHANGED <<ctor, twin, twinOut, endian>>

\* Rng::fill_bytes, on a zeroed buffer of len bytes
FillBytes ==
    /\ pc = "ready"
    /\ \E len \in 0..MaxBufLen :
       \E r \in {fill_bytes(rng, Repeat(0, len), endian)} :
             /\ CanDraw(Len(r.words))
             /\ rng' = r.b
             /\ drawn' = drawn \o r.words
             /\ pc' = IF r.mem.panicked THEN "panicked" ELSE "ready"
             /\ call' = [op |-> "fill_bytes", len |-> len, first |-> Len(drawn) + 1,
                         before |-> rng,
                         draws |-> Len(r.words), buf |-> r.mem.bytes,
                         writes |-> r.mem.writes,
                         status |-> IF r.mem.panicked THEN "panicked" ELSE "returned"]
    /\ UNCHANGED <<ctor, twin, twinOut, endian>>

\* Rng::iter_u64, Rng::iter_f64 and IntoIterator for &mut Rng: the iterator borrows
\* the handle until it is dropped.
IterCreate ==
    /\ pc = "ready"
    /\ \E how \in {"iter_u64", "iter_f64", "into_iter"} :
         /\ pc' = IF how = "iter_f64" THEN "F64Iter" ELSE "U64Iter"
         /\ call' = [op |-> how, first |-> Len(drawn) + 1, before |-> rng,
                     items |-> <<>>]
    /\ UNCHANGED <<rng, ctor, twin, drawn, twinOut, endian>>

\* U64Iter::next and F64Iter::next
Some(v) == [some |-> TRUE, v |-> v]
\* U64Iter::next had it drawn twice and yielded the second word.
U64Iter_next_skip(b) ==
    LET d1 == next_u64(b)
        d == next_u64(d1.b)
    IN  [b |-> d.b, w |-> d.v, item |-> Some(d.v)]
U64Iter_next(b) ==
    LET d == next_u64(b)
    IN  [b |-> d.b, w |-> d.v, item |-> Some(d.v)]
F64Iter_next(b) ==
    LET d == next_f64(b)
    IN  [b |-> d.b, w |-> d.w, item |-> Some(d.f)]
IterNext ==
    /\ pc \in {"U64Iter", "F64Iter"} /\ CanDraw(1)
    /\ \E r \in {IF pc = "U64Iter" THEN U64Iter_next(rng) ELSE F64Iter_next(rng)} :
           /\ rng' = r.b
           /\ drawn' = Append(drawn, r.w)
           /\ call' = [call EXCEPT !.items = Append(@, r.item)]
    /\ UNCHANGED <<ctor, twin, twinOut, pc, endian>>

\* The iterator goes out of scope: the handle is free again.
IterDrop ==
    /\ pc \in {"U64Iter", "F64Iter"}
    /\ pc' = "ready"
    /\ UNCHANGED <<rng, ctor, twin, drawn, twinOut, call, endian>>

\* Rng::next_u64 on a handle whose caller draws for long: past one twist of the
\* Mersenne Twister and into the next.
LongNextU64 ==
    /\ pc = "ready" /\ Len(drawn) < MaxLongDraws
    /\ \E d \in {next_u64(rng)} :
           /\ rng' = d.b
           /\ drawn' = Append(drawn, d.v)
           /\ call' = [op |-> "next_u64", ret |-> d.v]
    /\ UNCHANGED <<ctor, twin, twinOut, pc, endian>>

----------------------------------------------------------------------------
(* Specifications *)

\* Every method of the handle, on every backend. The properties are stated on the
\* parts of it that follow, one per group of methods.
Next ==
    \/ NextU64
    \/ TwinNextU64
    \/ NextF64
    \/ NextU32
    \/ NextF32
    \/ NextBool
    \/ GenRangeCall
    \/ GenRangeLoop
    \/ GenRangeF64
    \/ FillBytes
    \/ IterCreate
    \/ IterNext
    \/ IterDrop
Spec == Init /\ [][Next]_vars

\* Two instances from one constructor call, each drawing words at its own pace.
NextStream ==
    \/ NextU64
    \/ TwinNextU64
SpecStream == InitFrom(Calls, {"little"}) /\ [][NextStream]_vars

\* Ranged sampling.
NextRange ==
    \/ GenRangeCall
    \/ GenRangeLoop
    \/ GenRangeF64
SpecRange == InitFrom(RangeCalls, {"little"}) /\ [][NextRange]_vars

\* The derived scalar draws.
NextScalar ==
    \/ NextF64
    \/ NextU32
    \/ NextF32
    \/ NextBool
SpecScalar == InitFrom(Calls, {"little"}) /\ [][NextScalar]_vars

\* Byte filling, between direct draws, on either byte order.
NextFill ==
    \/ FillBytes
    \/ NextU64
SpecFill == InitFrom(SampleCalls, ByteOrders) /\ [][NextFill]_vars

\* Iterators, between direct draws.
NextIter ==
    \/ IterCreate
    \/ IterNext
    \/ IterDrop
    \/ NextU64
    \/ NextF64
SpecIter == InitFrom(SampleCalls, {"little"}) /\ [][NextIter]_vars

\* A long run of draws from the Mersenne Twister.
SpecTwist == InitFrom(MTCalls, {"little"}) /\ [][LongNextU64]_vars

----------------------------------------------------------------------------
(* Properties *)

Accepted == drawn[Len(drawn)]
Rejected == {drawn[n] : n \in call.first..(Len(drawn) - 1)}
Returned == call.op = "gen_range" /\ call.status = "returned"
\* max - min and u64::MAX - (u64::MAX mod (max - min)), from the call's arguments.
RangeOf(c) == WrappingSub(c.max, c.min)
ZoneOf(c) == WrappingSub(U64_MAX, Rem(U64_MAX, RangeOf(c)))

\* C2 (SpecRange). Range law: when gen_range(min, max) with min < max returns r,
\* the last word drawn, v, is below zone and every word the call drew before it
\* is not; r - min is below max - min and congruent to v modulo max - min, that
\* is r = min + (v mod (max - min)); min <= r < max; and min + (v mod range) did
\* not overflow.
C2_RangeLaw ==
    Returned =>
        /\ Lt(call.min, call.max)
        /\ Len(drawn) >= call.first
        /\ Lt(Accepted, ZoneOf(call))
        /\ \A w \in Rejected : Ge(w, ZoneOf(call))
        /\ Ge(call.ret, call.min) /\ Lt(call.ret, call.max)
        /\ Rem(WrappingSub(Accepted, WrappingSub(call.ret, call.min)), RangeOf(call)) = ZERO
        /\ call.ret = WrappingAdd(call.min, Rem(Accepted, RangeOf(call)))
        /\ ~call.overflow
\* A call on the range [0, 2^63 + 1) has returned after rejecting a word.
C2_Witness ==
    /\ Returned
    /\ call.max = WrappingAdd(TOP_BIT, ONE)
    /\ Rejected # {}

\* C3 (SpecRange). Zone rejection is unbiased: in every call of gen_range with
\* range = max - min >= 1, the zone the loop compares with is
\* u64::MAX - (u64::MAX mod range), it is not zero, it is an exact multiple of
\* range, and it is the largest one (u64::MAX - zone < range); the words the call
\* accepts are exactly those below zone. The accepted words are thus the whole
\* blocks [k * range, (k + 1) * range) below zone, so every outcome of [min, max)
\* has the same number, zone / range, of accepted words.
C3_ZoneUnbiased ==
    (call.op = "gen_range" /\ call.status # "panicked") =>
        /\ Ge(RangeOf(call), ONE) /\ call.range = RangeOf(call)
        /\ call.zone = ZoneOf(call)
        /\ call.zone # ZERO
        /\ Rem(call.zone, call.range) = ZERO
        /\ Lt(WrappingSub(U64_MAX, call.zone), call.range)
        /\ Returned => Lt(Accepted, call.zone)
        /\ \A n \in call.first..Len(drawn) :
              Lt(drawn[n], call.zone) => (Returned /\ n = Len(drawn))
\* A call whose range, 10, does not divide 2^64 has returned.
C3_Witness ==
    /\ Returned
    /\ call.min = U64(10) /\ call.max = U64(20)
    /\ Rem(U64_MAX, call.range) # ZERO

\* C4 (SpecRange). Invalid ranges are fatal and free of side effects: a call of
\* gen_range(min, max) or of gen_range_f64(min, max) with min >= max panics, and
\* in the step that panics no word is drawn and the backend is left as it was.
InvalidRange(c) ==
    \/ c.op = "gen_range" /\ Ge(c.min, c.max)
    \/ c.op = "gen_range_f64" /\ F64Ge(c.min, c.max)
C4_InvalidRangePanics ==
    [][(pc = "ready" /\ InvalidRange(call'))
          => (pc' = "panicked" /\ rng' = rng /\ drawn' = drawn)]_vars
\* gen_range_f64 has panicked on a handle that had drawn words before.
C4_Witness ==
    /\ pc = "panicked"
    /\ call.op = "gen_range_f64" /\ F64Ge(call.min, call.max)
    /\ Len(drawn) >= 1

\* C5 (SpecStream). XorShift seed contract: try_new(0) returns InvalidSeed and
\* builds nothing; new(0) panics; for every seed other than 0, try_new(seed) and
\* new(seed) both succeed with state = seed. No XorShift is built with state 0.
C5_XorShiftSeedContract ==
    ctor.type = "XorShift" =>
        LET seed == ctor.args[1]
        IN  /\ (seed = ZERO /\ ctor.fn = "try_new") =>
                  (ctor.result = "InvalidSeed" /\ ctor.b = NoBackend /\ pc = "failed")
            /\ (seed = ZERO /\ ctor.fn = "new") =>
                  (ctor.result = "panic" /\ ctor.b = NoBackend /\ pc = "failed")
            /\ seed # ZERO =>
                  (ctor.result = "Ok" /\ ctor.b = Scalar("XorShift", seed))
            /\ ctor.result = "Ok" => ctor.b.state # ZERO
\* try_new(0) has returned the error.
C5_Witness ==
    /\ ctor.type = "XorShift" /\ ctor.fn = "try_new"
    /\ ctor.args = <<ZERO>>
    /\ ctor.result = "InvalidSeed"

\* The backend after n more calls of next_u64, and the words and the floats that n
\* direct calls of next_u64 and of next_f64 return.
RECURSIVE Advance(_, _)
Advance(b, n) == IF n = 0 THEN b ELSE Advance(next_u64(b).b, n - 1)
RECURSIVE DirectU64(_, _)
DirectU64(b, n) ==
    IF n = 0 THEN <<>>
    ELSE LET d == next_u64(b) IN <<d.v>> \o DirectU64(d.b, n - 1)
RECURSIVE DirectF64(_, _)
DirectF64(b, n) ==
    IF n = 0 THEN <<>>
    ELSE LET d == next_f64(b) IN <<d.f>> \o DirectF64(d.b, n - 1)
\* Byte k of word w in memory: bits 8k.. on a little-endian target, bits
\* 8(7-k).. on a big-endian one.
NativeByte(w, k, order) ==
    IF order = "little" THEN Shr(w, 8 * k)[1] ELSE Shr(w, 8 * (7 - k))[1]

\* C6 (SpecFill). fill_bytes exactness: a call on a buffer of len >= 0 bytes
\* returns after exactly ceil(len / 8) draws (none for len = 0); it has written
\* each of the len bytes once and nothing outside the buffer; byte j is byte
\* j mod 8, in native order, of the floor(j / 8)-th word the call drew; and the
\* backend is then as the backend of before the call after ceil(len / 8) calls
\* of next_u64.
C6_FillBytesExact ==
    call.op = "fill_bytes" =>
        LET draws == (call.len + 7) \div 8
        IN  /\ call.status = "returned"
            /\ call.draws = draws
            /\ Len(drawn) = (call.first - 1) + draws
            /\ Len(call.buf) = call.len /\ Len(call.writes) = call.len
            /\ \A j \in 0..(call.len - 1) :
                  /\ call.writes[j + 1] = 1
                  /\ call.buf[j + 1] =
                        NativeByte(drawn[call.first + (j \div 8)], j % 8, endian)
            /\ rng = Advance(call.before, draws)
\* A buffer of 17 bytes has been filled from three words on a big-endian target,
\* by a handle that had drawn before.
C6_Witness ==
    /\ call.op = "fill_bytes" /\ call.len = 17 /\ call.draws = 3
    /\ call.first = 2
    /\ endian = "big"

\* C7 (SpecScalar). Unit-interval law: for the word w drawn, next_f64 returns
\* (w >> 11) * 2^-53 with the numerator in [0, 2^53 - 1], and next_f32 returns
\* (w >> 40) * 2^-24 with the numerator in [0, 2^24 - 1]; both are >= 0, below
\* 1, and never 1.0, for every backend.
C7_UnitInterval ==
    /\ call.op = "next_f64" =>
          /\ call.ret.m = Shr(drawn[Len(drawn)], 11) /\ call.ret.e = -53
          /\ Ge(ALL_53, call.ret.m)
          /\ FloatBelowOne(call.ret) /\ ~FloatIsOne(call.ret)
    /\ call.op = "next_f32" =>
          /\ call.ret.m = Shr(drawn[Len(drawn)], 40) /\ call.ret.e = -24
          /\ Ge(U64(16777215), call.ret.m)
          /\ FloatBelowOne(call.ret) /\ ~FloatIsOne(call.ret)
\* next_f64 has returned on the word of all ones: the numerator is 2^53 - 1.
C7_Witness ==
    /\ call.op = "next_f64"
    /\ drawn[Len(drawn)] = U64_MAX
    /\ call.ret.m = ALL_53

\* C8 (SpecStream). XorShift non-zero invariant: from any seed other than 0, after
\* any number of next_u64 calls the state of a XorShift is not zero, every word
\* it returned is not zero, and the word returned last is its state.
C8_XorShiftNeverZero ==
    (ctor.type = "XorShift" /\ ctor.result = "Ok") =>
        /\ rng.state # ZERO /\ twin.state # ZERO
        /\ \A n \in 1..Len(drawn) : drawn[n] # ZERO
        /\ \A n \in 1..Len(twinOut) : twinOut[n] # ZERO
        /\ Len(drawn) >= 1 => rng.state = drawn[Len(drawn)]
\* A XorShift seeded with 2^63 has drawn three words.
C8_Witness ==
    /\ ctor.type = "XorShift" /\ ctor.args = <<TOP_BIT>>
    /\ Len(drawn) >= 3

\* C9 (SpecIter). Draw sequences are lazy and unbuffered: creating iter_u64,
\* iter_f64 or the iterator of &mut Rng draws nothing; every next() returns Some
\* and advances the backend by one next_u64; the k-th item is the k-th value that
\* direct next_u64 (next_f64) calls on the handle of before the iterator would
\* have returned; and while the iterator lives and when it is dropped the backend
\* is as after as many direct calls as items were yielded, so that the draws that
\* follow continue the stream with no word skipped or repeated.
IterCall == call.op \in {"iter_u64", "iter_f64", "into_iter"}
C9_IteratorsLazy ==
    IterCall =>
        LET k == Len(call.items)
            direct == IF call.op = "iter_f64" THEN DirectF64(call.before, k)
                      ELSE DirectU64(call.before, k)
        IN  /\ Len(drawn) = (call.first - 1) + k
            /\ \A i \in 1..k : call.items[i].some /\ call.items[i].v = direct[i]
            /\ \A i \in 1..k : call.op # "iter_f64" =>
                                    call.items[i].v = drawn[(call.first - 1) + i]
            /\ rng = Advance(call.before, k)
\* An iterator of &mut Rng, made after a direct draw, has yielded two items and
\* has been dropped.
C9_Witness ==
    /\ call.op = "into_iter" /\ pc = "ready"
    /\ call.first = 2 /\ Len(call.items) = 2

\* The word the twist writes to mt[i] if it reads, of the array old of before the
\* pass, mt[i], mt[(i+1) mod 312] and mt[(i+156) mod 312].
PreTwistWord(old, i) ==
    TwistWord(At(old, i), At(old, (i + 1) % NN), At(old, (i + MM) % NN))
\* The same if the words of the pass's array written before mt[i], those of lower
\* index, are read as rewritten (new) and the others as of before the pass (old).
InPlaceWord(old, new, i) ==
    TwistWord(At(old, i),
              IF i + 1 < NN THEN At(old, i + 1) ELSE At(new, 0),
              IF i + MM < NN THEN At(old, i + MM) ELSE At(new, (i + MM) - NN))

\* C10 as claimed (SpecTwist). In one twist pass every new mt[i], i in 0..311, is
\* computed from the values mt[i], mt[(i+1) mod 312] and mt[(i+156) mod 312] held
\* before the pass, never from a word rewritten earlier in the pass.
C10_TwistReadsOnlyPreTwist ==
    [][rng.index >= NN =>
          \A i \in 0..(NN - 1) : At(rng'.mt, i) = PreTwistWord(rng.mt, i)]_vars

\* C10 amended (SpecTwist). In one twist pass every new mt[i] is computed from the
\* mt[i] of before the pass; from the mt[i+1] of before the pass for i <= 310 and
\* from the rewritten mt[0] for i = 311; from the mt[i+156] of before the pass for
\* i < 156 and from the rewritten mt[i-156] for i >= 156.
C10_TwistInPlace ==
    [][rng.index >= NN =>
          \A i \in 0..(NN - 1) : At(rng'.mt, i) = InPlaceWord(rng.mt, rng'.mt, i)]_vars
\* The draw after the 312 words of the first pass has twisted again.
C10_Witness ==
    /\ rng.kind = "MT19937_64"
    /\ Len(drawn) = NN + 1 /\ rng.index = 1

\* C11 (SpecTwist). MT19937-64 cursor and twist timing: the cursor is 312 right
\* after construction and stays in [0, 312], in [1, 312] after any draw: after
\* draw k it is ((k - 1) mod 312) + 1. Draw k twists (rewrites the array) exactly
\* when (k - 1) mod 312 = 0, so draws 1 and 313 twist and none of the draws
\* 2..312 does; a twist sets the cursor to 0, and the draw then adds 1 to it.
C11_CursorAndTwistTiming ==
    /\ [](/\ rng.index \in 0..NN
          /\ Len(drawn) = 0 => rng.index = NN
          /\ Len(drawn) >= 1 => rng.index = ((Len(drawn) - 1) % NN) + 1)
    /\ [][/\ (rng'.mt # rng.mt) <=> (Len(drawn) % NN = 0)
          /\ (rng'.mt # rng.mt) <=> (rng.index >= NN)
          /\ rng'.index = (IF Len(drawn) % NN = 0 THEN 0 ELSE rng.index) + 1]_vars
\* The draw after the second twist: the cursor is 2 after draw 314.
C11_Witness ==
    /\ rng.kind = "MT19937_64"
    /\ Len(drawn) = NN + 2 /\ rng.index = 2

\* A call of gen_range is in its loop.
Looping == call.op = "gen_range" /\ call.status = "looping"

PCGOutput(old) ==
    RotateRight32(AsU32(Shr(Xor64(Shr(old, 18), old), 27)), Small(Shr(old, 59)))

\* C13 (SpecStream). PCG construction and increment: PCG::new(seed, sequence)
\* sets increment = (sequence << 1) | 1, which is odd, sets state = seed +
\* increment and takes one internal step, so that the instance it returns is in
\* state (seed + increment) * MULT + increment and the first draw of the caller
\* is computed from that state; no next_u64 changes increment, which is odd in
\* every reachable state.
C13_PCGIncrement ==
    ctor.type = "PCG" =>
        LET seed == ctor.args[1]
            sequence == ctor.args[2]
            inc == Or64(Shl(sequence, 1), ONE)
            first == WrappingAdd(WrappingMul(WrappingAdd(seed, inc), PCG_MULTIPLIER), inc)
        IN  /\ ctor.b.increment = inc /\ ctor.b.state = first
            /\ rng.increment = inc /\ twin.increment = inc
            /\ Bit(rng.increment, 0) = 1 /\ Bit(twin.increment, 0) = 1
            /\ Len(drawn) >= 1 =>
                  /\ drawn[1] = PCGOutput(first)
                  /\ Len(drawn) = 1 =>
                        rng.state = WrappingAdd(WrappingMul(first, PCG_MULTIPLIER), inc)
\* A PCG built from seed and sequence u64::MAX, whose shift drops the top bit of
\* the sequence, has drawn twice.
C13_Witness ==
    /\ ctor.type = "PCG" /\ ctor.args = <<U64_MAX, U64_MAX>>
    /\ Len(drawn) >= 2

\* C14 (SpecStream). Xoshiro256** is never all zero: the four words that
\* Xoshiro256StarStar::new(seed) produces are four consecutive SplitMix64 outputs
\* from seed and are not all zero, and after any number of next_u64 steps the
\* four words of the state are not all zero.
C14_XoshiroNeverAllZero ==
    ctor.type = "Xoshiro256StarStar" =>
        /\ ctor.b.s = DirectU64(SplitMix64_new(ctor.args[1]), 4)
        /\ ctor.b.s # <<ZERO, ZERO, ZERO, ZERO>>
        /\ rng.s # <<ZERO, ZERO, ZERO, ZERO>>
        /\ twin.s # <<ZERO, ZERO, ZERO, ZERO>>
\* A Xoshiro256** seeded with 0 has drawn three words.
C14_Witness ==
    /\ ctor.type = "Xoshiro256StarStar" /\ ctor.args = <<ZERO>>
    /\ Len(drawn) >= 3

\* The instance is one of the six backends of the crate.
BuiltIn ==
    ctor.type \in {"LCG", "XorShift", "SplitMix64", "PCG", "Xoshiro256StarStar",
                   "MT19937_64"}

\* C15 (SpecStream). Every draw makes progress: on each of the six backends, in
\* every state reached from a constructor call that succeeded, a call of next_u64
\* leaves the backend in a state other than the one before the call.
C15_EveryDrawChangesState ==
    [][BuiltIn => /\ drawn' # drawn => rng' # rng
                  /\ twinOut' # twinOut => twin' # twin]_vars
\* A SplitMix64 seeded with 0 has drawn twice and is in a state other than the
\* one it was built in.
C15_Witness ==
    /\ ctor.type = "SplitMix64" /\ ctor.args = <<ZERO>>
    /\ Len(drawn) >= 2 /\ rng # ctor.b

\* C16 (SpecScalar). PCG words carry only 32 bits: every word PCG::next_u64
\* returns is below 2^32, so that on a PCG the default next_u32, the upper 32
\* bits of the word, returns 0 on every call.
C16_PCGWordsBelow2Pow32 ==
    ctor.type = "PCG" =>
        /\ \A n \in 1..Len(drawn) : Lt(drawn[n], <<0, 0, 0, 0, 1, 0, 0, 0>>)
        /\ call.op = "next_u32" => call.ret = ZERO
\* next_u32 on a PCG has returned on a word that is not 0.
C16_Witness ==
    /\ ctor.type = "PCG" /\ call.op = "next_u32"
    /\ drawn[Len(drawn)] # ZERO
    /\ call.ret = ZERO

====
